---- MODULE Spec2Model ----
(***************************************************************************)
(* A model of zoom-recording-cloud-backup: the batch run of main() over    *)
(* the recordings listed by the provider, the per-file download / upload   *)
(* state machine, the ledger file (completed-downloads.json), the local    *)
(* staging directory and the upload destination.  Several runs of the      *)
(* process follow one another; the disk and the destination persist        *)
(* between runs, the in-memory objects do not.                             *)
(***************************************************************************)
EXTENDS Integers, Sequences, FiniteSets, TLC

\* ------------------------------------------------------------------ bounds

\* Number of process runs that follow one another.
MaxRuns == 2
\* Largest number of recording_files of the first user's recording.
MaxFiles == 2

\* ------------------------------------------------------------ value spaces

Users == {"u1", "u2"}

Statuses == {"pending", "downloaded", "download failed", "uploaded", "upload failed"}

\* The values of the "_status" key a file's JSON may carry besides being absent.
JsonStatuses == {"downloaded", "download failed", "uploaded", "upload failed"}

Range(s) == {s[i] : i \in 1..Len(s)}

\* The JSON of one recording file as the provider (or a saved file) gives it.
FileJson(id, st) ==
    IF st = "absent" THEN [id |-> id] ELSE [id |-> id, status_ |-> st]

\* The file ids of a recording with n files.
FileIdsOf(uuid, n) == {<<uuid, k>> : k \in 1..n}

AllFileIds == FileIdsOf("r1", MaxFiles) \cup FileIdsOf("r2", 1)

\* The meeting JSON documents the provider can hold for a recording of n
\* files: each file with or without a "_status" key.
MeetingJsons(uuid, size, n) ==
    { [uuid |-> uuid, total_size |-> size,
       recording_files |-> [k \in 1..n |-> FileJson(<<uuid, k>>, fs[k])]] :
        fs \in [1..n -> {"absent"} \cup JsonStatuses] }

\* What get_recordings hands to ZoomRecording: user u1 owns recording r1 with
\* 1..MaxFiles files, user u2 owns recording r2 with one file.  The provider's
\* own documents carry no "_status" key; RecordingFiles takes the status from
\* that key of whatever document it is given, so the files of r1 come with
\* and without it.
Catalogs ==
    { [u \in Users |-> IF u = "u1" THEN <<m1>>
                       ELSE <<[uuid |-> "r2", total_size |-> 2,
                               recording_files |-> <<FileJson(<<"r2", 1>>, "absent")>>]>>] :
        m1 \in UNION {MeetingJsons("r1", 3, n) : n \in 1..MaxFiles} }

UserLists == { <<"u1">>, <<"u1", "u2">> }

\* ------------------------------------------------------------------- state

VARIABLES
    run,                  \* number of the current process run
    dry_run,              \* args.dry_run
    users,                \* the user list of the run
    catalog,              \* what the provider holds, per user
    pc,                   \* position of main()
    recordings,           \* main()'s list of ZoomRecording objects
    ri, fi,               \* current recording and file of the two loops
    total_recording_size, completed_recordings, failed_files,
    ledgerExists,         \* COMPLETED_MEETING_RECORD exists on disk
    ledger,               \* its content: meeting id -> mapping of fields
    ledgerValid,          \* json.load accepts its content
    ledger0,              \* its content when the run started
    staged,               \* file ids whose staging file exists on disk
    dlOutcome, ulOutcome, \* this run: outcome of the download / upload of a file
    dlCalls, ulCalls,     \* this run: calls of download_recording / upload_large_file
    evals,                \* this run: times the loop body ran for a file
    writes,               \* this run: the update_meeting_json_file calls, in order
    deleted,              \* this run: file ids whose staging file os.remove deleted
    ulResult,             \* this run: how upload_large_file ended for a file
    retrieved,            \* this run: recordings get_recordings_for_users returned
    main_result,          \* what main() returned
    exit_code             \* exit status of the process, -1 while it runs

vars == <<run, dry_run, users, catalog, pc, recordings, ri, fi,
          total_recording_size, completed_recordings, failed_files,
          ledgerExists, ledger, ledgerValid, ledger0, staged,
          dlOutcome, ulOutcome, dlCalls, ulCalls, evals, writes, deleted,
          ulResult, retrieved, main_result, exit_code>>

env == <<run, dry_run, users, catalog>>
counters == <<total_recording_size, completed_recordings, failed_files>>
disk == <<ledgerExists, ledger, ledgerValid, staged>>
started == <<ledger0, retrieved>>
observed == <<dlOutcome, ulOutcome, dlCalls, ulCalls, writes, deleted, ulResult>>

\* ------------------------------------------------------------ utils/zoom.py

\* RecordingFiles.__init__: the status is the "_status" key, "pending" when absent.
RecordingFiles(file_json) ==
    [id |-> file_json.id,
     status |-> IF "status_" \in DOMAIN file_json THEN file_json.status_ ELSE "pending"]

\* RecordingFiles.to_json (download_url, file_extension and type are fixed
\* per file id and are carried by the id here).
to_json(file) == [id |-> file.id, status_ |-> file.status]

\* ZoomRecording.__init__
ZoomRecording(meeting_json, user) ==
    [id |-> meeting_json.uuid,
     size |-> meeting_json.total_size,
     user |-> user,
     files |-> [k \in DOMAIN meeting_json.recording_files |->
                   RecordingFiles(meeting_json.recording_files[k])]]

\* --------------------------------------------------------- utils/file_io.py

\* An assignment instead of a merge: the entry becomes the new fields alone.
DictUpdate_Replace(old, new) == new

\* A merge that drops the fields both mappings name.
DictUpdate_DropCommon(old, new) ==
    [k \in ((DOMAIN old) \ (DOMAIN new)) \cup ((DOMAIN new) \ (DOMAIN old)) |->
        IF k \in DOMAIN new THEN new[k] ELSE old[k]]

\* dict.update: fields of new overwrite, the other fields of old are kept.
DictUpdate(old, new) ==
    [k \in (DOMAIN old) \cup (DOMAIN new) |-> IF k \in DOMAIN new THEN new[k] ELSE old[k]]

\* update_meeting_json_file, from the data it read to the data it writes.
update_meeting_json_file(data, meeting_id, meeting_json) ==
    IF meeting_id \in DOMAIN data
    THEN [data EXCEPT ![meeting_id] = DictUpdate(@, meeting_json)]
    ELSE [k \in (DOMAIN data) \cup {meeting_id} |->
             IF k = meeting_id THEN meeting_json ELSE data[k]]

\* What update_meeting_json_file reads: {} when the file does not exist.
LedgerData == IF ledgerExists /\ ledgerValid THEN ledger ELSE <<>>

\* ------------------------------------------------- zoom-recording-cloud-backup.py

\* ------------------------------------- state of the parts modelled on their own

\* One call of update_meeting_json_file on the ledger file, step by step, and
\* the process being interrupted in it.
VARIABLES
    w_pc,                 \* position in update_meeting_json_file
    w_file,               \* the ledger file on disk: [kind, data]
    w_data,               \* the local data, after the merge
    w_id, w_json,         \* the arguments meeting_id and meeting_json
    w_prior               \* the ledger file when the call started

wvars == <<w_pc, w_file, w_data, w_id, w_json, w_prior>>

\* A file on disk: absent, a JSON document (kind "json", with its data), or
\* text json.load rejects: "garbage", "empty" (zero bytes) or "partial" (the
\* beginning of a document).
DiskFile(kind, data) == [kind |-> kind, data |-> data]

WriterIdle ==
    /\ w_pc = "off"
    /\ w_file = DiskFile("absent", <<>>)
    /\ w_data = <<>>
    /\ w_id = ""
    /\ w_json = <<>>
    /\ w_prior = DiskFile("absent", <<>>)

\* One call of ZoomClient.list_recordings for one user.  Dates are days.
VARIABLES
    l_pc,                 \* position in list_recordings
    l_start, l_end,       \* the arguments start_date and end_date
    l_windows,            \* what per_delta yields, in order
    l_wi,                 \* index of the window of the current iteration
    l_attempt,            \* iterations of "for _ in range(max_retries)" begun
    l_recordings,         \* the local list recordings
    l_result,             \* the value returned
    l_requests,           \* per window: calls of get_recordings
    l_got,                \* windows whose request returned a "meetings" list
    l_pages               \* per window: pages of results the provider holds

lvars == <<l_pc, l_start, l_end, l_windows, l_wi, l_attempt, l_recordings,
           l_result, l_requests, l_got, l_pages>>

ListingIdle ==
    /\ l_pc = "off"
    /\ l_start = 0
    /\ l_end = 0
    /\ l_windows = <<>>
    /\ l_wi = 0
    /\ l_attempt = 0
    /\ l_recordings = <<>>
    /\ l_result = <<>>
    /\ l_requests = <<>>
    /\ l_got = {}
    /\ l_pages = <<>>

\* One call of remove_empty_subfolders on a directory tree.
VARIABLES
    t_pc,                 \* position in remove_empty_subfolders
    t_parent,             \* the tree: directory -> its parent (0 for path_abs)
    t_files,              \* directories that hold a file directly
    t_dirs,               \* directories that exist
    t_dirs0,              \* directories that existed when the call started
    t_walk,               \* walk[::-1]
    t_i                   \* index of the for loop in t_walk

tvars == <<t_pc, t_parent, t_files, t_dirs, t_dirs0, t_walk, t_i>>

CleanupIdle ==
    /\ t_pc = "off"
    /\ t_parent = <<>>
    /\ t_files = {}
    /\ t_dirs = {}
    /\ t_dirs0 = {}
    /\ t_walk = <<>>
    /\ t_i = 0

\* The process interrupted during a transfer, and started again.
VARIABLES
    k_file                \* the file whose transfer the previous run was
                          \* interrupted in: [id, status, run]

kvars == <<k_file>>

NotInterrupted == [id |-> <<"", 0>>, status |-> "none", run |-> 0]

InterruptIdle == k_file = NotInterrupted

\* The chunk size upload_large_file computes for one local file.
VARIABLES
    c_pc,                 \* position in upload_large_file
    c_total_length,       \* os.path.getsize(local_file_path)
    c_max_chunk_size      \* the local max_chunk_size

cvars == <<c_pc, c_total_length, c_max_chunk_size>>

ChunkIdle ==
    /\ c_pc = "off"
    /\ c_total_length = 0
    /\ c_max_chunk_size = 0

aside == <<wvars, lvars, tvars, kvars, cvars>>

NoFileState == [f \in AllFileIds |-> "none"]
NoFileCount == [f \in AllFileIds |-> 0]

Init ==
    /\ run = 1
    /\ dry_run \in BOOLEAN
    /\ users \in UserLists
    /\ catalog \in Catalogs
    /\ pc = "fetch"
    /\ recordings = <<>>
    /\ ri = 0
    /\ fi = 0
    /\ total_recording_size = 0
    /\ completed_recordings = 0
    /\ failed_files = 0
    /\ ledgerExists \in BOOLEAN
    /\ ledger = <<>>
    /\ ledgerValid \in BOOLEAN
    /\ ledgerExists \/ ledgerValid
    /\ ledger0 = <<>>
    /\ staged = {}
    /\ dlOutcome = NoFileState
    /\ ulOutcome = NoFileState
    /\ dlCalls = NoFileCount
    /\ ulCalls = NoFileCount
    /\ evals = NoFileCount
    /\ writes = <<>>
    /\ deleted = {}
    /\ ulResult = NoFileState
    /\ retrieved = 0
    /\ main_result = "running"
    /\ exit_code = -1
    /\ WriterIdle
    /\ ListingIdle
    /\ CleanupIdle
    /\ InterruptIdle
    /\ ChunkIdle

\* get_recordings_for_users: the users in order; list_recordings gives the
\* meetings of a user, or [] for a user it could not reach (up: the reachable).
RECURSIVE get_recordings_for_users(_, _)
get_recordings_for_users(us, up) ==
    IF us = <<>> THEN <<>>
    ELSE LET user == Head(us)
             recording_json == IF user \in up THEN catalog[user] ELSE <<>>
         IN  [k \in DOMAIN recording_json |-> ZoomRecording(recording_json[k], user)]
                 \o get_recordings_for_users(Tail(us), up)

\* main, line 419
GetRecordings ==
    /\ pc = "fetch"
    /\ UNCHANGED aside
    /\ \E up \in SUBSET Range(users) :
          /\ recordings' = get_recordings_for_users(users, up)
          /\ retrieved' = Len(get_recordings_for_users(users, up))
    /\ pc' = "check"
    /\ UNCHANGED <<env, ri, fi, counters, disk, ledger0, observed, evals,
                   main_result, exit_code>>

\* The first recording at index i or later whose user is in the user list and
\* that has a file, 0 when there is none: the two for loops of main.
RECURSIVE NextRecording(_, _, _)
NextRecording(recs, us, i) ==
    IF i > Len(recs) THEN 0
    ELSE IF recs[i].user \in Range(us) /\ Len(recs[i].files) > 0 THEN i
    ELSE NextRecording(recs, us, i + 1)

\* Move the loops to position <<i, 1>>, or to the summary when i = 0.
EnterRecording(i) ==
    /\ ri' = i
    /\ fi' = IF i = 0 THEN 0 ELSE 1
    /\ pc' = IF i = 0 THEN "summary" ELSE "file"

\* The end of the loop body (and every continue): the next file.
NextFile ==
    IF fi < Len(recordings[ri].files)
    THEN ri' = ri /\ fi' = fi + 1 /\ pc' = "file"
    ELSE EnterRecording(NextRecording(recordings, users, ri + 1))

\* main, lines 421-424 and 428: the ledger file is created when absent, and
\* recordings were retrieved.
StartLoop ==
    /\ pc = "check"
    /\ UNCHANGED aside
    /\ recordings # <<>>
    /\ ledgerExists' = TRUE
    /\ ledger' = LedgerData
    /\ UNCHANGED ledgerValid
    /\ EnterRecording(NextRecording(recordings, users, 1))
    /\ UNCHANGED <<env, recordings, counters, started, staged, observed,
                   evals, main_result, exit_code>>

\* main, lines 428-439: nothing retrieved and the ledger holds no entry.
\* main returns 1; line 544 drops the value and the interpreter exits with 0.
ReturnNoRecordings ==
    /\ pc = "check"
    /\ UNCHANGED aside
    /\ recordings = <<>>
    /\ ledgerValid
    /\ DOMAIN LedgerData = {}
    /\ ledgerExists' = TRUE
    /\ ledger' = LedgerData
    /\ UNCHANGED ledgerValid
    /\ pc' = "done"
    /\ main_result' = "1"
    /\ exit_code' = 0
    /\ UNCHANGED <<env, recordings, ri, fi, counters, started, staged,
                   observed, evals>>

\* main, lines 428-442: nothing retrieved and the ledger holds entries.
\* ZoomRecording(meeting) lacks the argument user: TypeError, not caught.
LedgerFallback ==
    /\ pc = "check"
    /\ UNCHANGED aside
    /\ recordings = <<>>
    /\ ledgerValid
    /\ DOMAIN LedgerData # {}
    /\ pc' = "crashed"
    /\ exit_code' = 1
    /\ UNCHANGED <<env, recordings, ri, fi, counters, disk, started, observed,
                   evals, main_result>>

\* main, lines 428-434: nothing retrieved and json.load rejects the ledger
\* file: JSONDecodeError, not caught.
LedgerUnreadable ==
    /\ pc = "check"
    /\ UNCHANGED aside
    /\ recordings = <<>>
    /\ ~ledgerValid
    /\ pc' = "crashed"
    /\ exit_code' = 1
    /\ UNCHANGED <<env, recordings, ri, fi, counters, disk, started, observed,
                   evals, main_result>>

CurRec == recordings[ri]
CurFile == recordings[ri].files[fi]

SetStatus(st) == recordings' = [recordings EXCEPT ![ri].files[fi].status = st]

\* A status change that is not written to the ledger.
SaveStatus_Skip(st) == UNCHANGED <<ledgerExists, ledger, ledgerValid, writes>>

\* The call update_meeting_json_file(COMPLETED_MEETING_RECORD, recording.id,
\* file.to_json()) with the file's status st.
SaveStatus(st) ==
    LET json == to_json([CurFile EXCEPT !.status = st])
    IN  /\ ledger' = update_meeting_json_file(LedgerData, CurRec.id, json)
        /\ ledgerExists' = TRUE
        /\ ledgerValid' = TRUE
        /\ writes' = Append(writes, [meeting |-> CurRec.id, json |-> json])

\* A status dispatch that downloads again whatever is not staged for upload.
NeedsDownload_Again(st) == st # "downloaded"

\* main, line 475
NeedsDownload(st) == st = "pending"

\* A status dispatch that compares with the wrong status string.
NeedsUpload_WrongStatus(st) == st = "uploaded"

\* A status dispatch that uploads again what failed to upload.
NeedsUpload_Retry(st) == st \in {"downloaded", "upload failed"}

\* main, line 502
NeedsUpload(st) == st = "downloaded"

\* main, lines 459-475: the loop body starts for a file.
EnterFile ==
    /\ pc = "file"
    /\ UNCHANGED aside
    /\ evals' = [evals EXCEPT ![CurFile.id] = @ + 1]
    /\ pc' = IF NeedsDownload(CurFile.status) THEN "download" ELSE "ready"
    /\ UNCHANGED <<env, recordings, ri, fi, counters, disk, started, observed,
                   main_result, exit_code>>

\* main, lines 483-485: dry run of a pending file, only prints.
DryRunDownload ==
    /\ pc = "download"
    /\ UNCHANGED aside
    /\ dry_run
    /\ pc' = "ready"
    /\ UNCHANGED <<env, recordings, ri, fi, counters, disk, started, observed,
                   evals, main_result, exit_code>>

\* An except clause that leaves the loops after recording the failure.
OnDownloadRaised_Abort ==
    /\ SetStatus("download failed")
    /\ SaveStatus("download failed")
    /\ failed_files' = failed_files + 1
    /\ pc' = "summary"
    /\ UNCHANGED <<ri, fi, total_recording_size, completed_recordings>>

\* main, lines 490-499: download_recording raised.
OnDownloadRaised ==
    /\ SetStatus("download failed")
    /\ SaveStatus("download failed")
    /\ failed_files' = failed_files + 1
    /\ NextFile
    /\ UNCHANGED <<total_recording_size, completed_recordings>>

\* download_recording, lines 250-257: makedirs or requests.get raises, outside
\* the function's own try.
DownloadOpenFails ==
    /\ pc = "download"
    /\ UNCHANGED aside
    /\ ~dry_run
    /\ dlCalls' = [dlCalls EXCEPT ![CurFile.id] = @ + 1]
    /\ dlOutcome' = [dlOutcome EXCEPT ![CurFile.id] = "open_fail"]
    /\ OnDownloadRaised
    /\ UNCHANGED <<env, started, staged, ulOutcome, ulCalls, deleted,
                   ulResult, evals, main_result, exit_code>>

\* download_recording, lines 250-266: the request is open and the staging
\* file is opened for writing (created or truncated).
BeginDownload ==
    /\ pc = "download"
    /\ UNCHANGED aside
    /\ ~dry_run
    /\ dlCalls' = [dlCalls EXCEPT ![CurFile.id] = @ + 1]
    /\ staged' = staged \cup {CurFile.id}
    /\ pc' = "downloading"
    /\ UNCHANGED <<env, recordings, ri, fi, counters, ledgerExists, ledger, ledgerValid,
                   started, dlOutcome, ulOutcome, ulCalls, writes,
                   deleted, ulResult, evals, main_result, exit_code>>

\* download_recording, lines 267-272, returns True; main, lines 486-488.
DownloadCompletes ==
    /\ pc = "downloading"
    /\ UNCHANGED aside
    /\ dlOutcome' = [dlOutcome EXCEPT ![CurFile.id] = "ok"]
    /\ SetStatus("downloaded")
    /\ SaveStatus("downloaded")
    /\ pc' = "ready"
    /\ UNCHANGED <<env, ri, fi, counters, started, staged, ulOutcome,
                   dlCalls, ulCalls, deleted, ulResult, evals, main_result,
                   exit_code>>

\* download_recording, lines 274-280: an error while streaming is caught and
\* False is returned; main, line 486: the elif is not taken.
DownloadStreamFails ==
    /\ pc = "downloading"
    /\ UNCHANGED aside
    /\ dlOutcome' = [dlOutcome EXCEPT ![CurFile.id] = "stream_fail"]
    /\ pc' = "ready"
    /\ UNCHANGED <<env, recordings, ri, fi, counters, disk, started, ulOutcome,
                   dlCalls, ulCalls, writes, deleted, ulResult, evals,
                   main_result, exit_code>>

\* main, line 502 false, line 528: nothing to upload for this file.
NothingToUpload ==
    /\ pc = "ready"
    /\ UNCHANGED aside
    /\ ~NeedsUpload(CurFile.status)
    /\ NextFile
    /\ UNCHANGED <<env, recordings, counters, disk, started, observed, evals,
                   main_result, exit_code>>

\* An except clause that records the status but does not count the failure.
OnUploadRaised_Discard ==
    /\ SetStatus("upload failed")
    /\ failed_files' = failed_files
    /\ SaveStatus("upload failed")
    /\ NextFile
    /\ UNCHANGED <<total_recording_size, completed_recordings>>

\* main, lines 514-520: upload_large_file raised.
OnUploadRaised ==
    /\ SetStatus("upload failed")
    /\ failed_files' = failed_files + 1
    /\ SaveStatus("upload failed")
    /\ NextFile
    /\ UNCHANGED <<total_recording_size, completed_recordings>>

\* An else clause that goes on to os.remove without writing the ledger.
OnUploadReturned_NoWrite ==
    /\ SetStatus("uploaded")
    /\ completed_recordings' = completed_recordings + 1
    /\ total_recording_size' = total_recording_size + CurRec.size
    /\ SaveStatus_Skip("uploaded")
    /\ pc' = "remove"
    /\ UNCHANGED <<ri, fi, failed_files>>

\* main, lines 521-525: the else clause of the try, taken when no exception
\* was raised in it.
OnUploadReturned ==
    /\ SetStatus("uploaded")
    /\ completed_recordings' = completed_recordings + 1
    /\ total_recording_size' = total_recording_size + CurRec.size
    /\ SaveStatus("uploaded")
    /\ pc' = "remove"
    /\ UNCHANGED <<ri, fi, failed_files>>

\* upload_large_file seen from its caller, for each thing that can happen in
\* it: "no_local_file" (open raises), "session_api_error" (create_upload_session
\* raises APIError), "chunk_api_error" (task.upload raises APIError: a chunk
\* was refused), "other_error" (task.upload raises another error), "ok" (the
\* whole content was stored).  APIError of create_upload_session
\* is caught (line 96) and the unbound upload_session then raises at line 109;
\* APIError of task.upload is caught (line 134) and the function returns; any
\* other error is not caught (lines 137-138 catch APIError only).
upload_large_file(outcome) ==
    IF outcome \in {"ok", "chunk_api_error"} THEN "returned" ELSE "raised"

\* main, lines 508-509 and 521-525: a dry run of a downloaded file prints, no
\* exception is raised, and the else clause runs.
DryRunUpload ==
    /\ pc = "ready"
    /\ UNCHANGED aside
    /\ NeedsUpload(CurFile.status)
    /\ dry_run
    /\ OnUploadReturned
    /\ UNCHANGED <<env, started, staged, dlOutcome, ulOutcome, dlCalls,
                   ulCalls, deleted, ulResult, evals, main_result, exit_code>>

\* upload_large_file, lines 85-114: the local file cannot be opened, or the
\* upload session cannot be created.
UploadCannotStart ==
    /\ pc = "ready"
    /\ UNCHANGED aside
    /\ NeedsUpload(CurFile.status)
    /\ ~dry_run
    /\ \E o \in {"no_local_file", "session_api_error"} :
          /\ (o = "no_local_file") <=> (CurFile.id \notin staged)
          /\ ulOutcome' = [ulOutcome EXCEPT ![CurFile.id] = o]
          /\ ulResult' = [ulResult EXCEPT ![CurFile.id] = upload_large_file(o)]
          /\ IF upload_large_file(o) = "raised" THEN OnUploadRaised ELSE OnUploadReturned
    /\ ulCalls' = [ulCalls EXCEPT ![CurFile.id] = @ + 1]
    /\ UNCHANGED <<env, started, staged, dlOutcome, dlCalls, deleted,
                   evals, main_result, exit_code>>

\* upload_large_file, lines 85-131: the session exists and task.upload runs.
BeginUpload ==
    /\ pc = "ready"
    /\ UNCHANGED aside
    /\ NeedsUpload(CurFile.status)
    /\ ~dry_run
    /\ CurFile.id \in staged
    /\ ulCalls' = [ulCalls EXCEPT ![CurFile.id] = @ + 1]
    /\ pc' = "uploading"
    /\ UNCHANGED <<env, recordings, ri, fi, counters, disk, started, dlOutcome,
                   ulOutcome, dlCalls, writes, deleted, ulResult, evals,
                   main_result, exit_code>>

\* upload_large_file, lines 130-138, and main, lines 514-525.
UploadEnds ==
    /\ pc = "uploading"
    /\ UNCHANGED aside
    /\ \E o \in {"ok", "chunk_api_error", "other_error"} :
          /\ ulOutcome' = [ulOutcome EXCEPT ![CurFile.id] = o]
          /\ ulResult' = [ulResult EXCEPT ![CurFile.id] = upload_large_file(o)]
          /\ IF upload_large_file(o) = "raised" THEN OnUploadRaised ELSE OnUploadReturned
    /\ UNCHANGED <<env, started, staged, dlOutcome, dlCalls, ulCalls, deleted,
                   evals, main_result, exit_code>>

\* main, line 526: os.remove(local_file_path), then line 528.
RemoveLocal ==
    /\ pc = "remove"
    /\ UNCHANGED aside
    /\ CurFile.id \in staged
    /\ staged' = staged \ {CurFile.id}
    /\ deleted' = deleted \cup {CurFile.id}
    /\ NextFile
    /\ UNCHANGED <<env, recordings, counters, ledgerExists, ledger, ledgerValid, started,
                   dlOutcome, ulOutcome, dlCalls, ulCalls, writes,
                   ulResult, evals, main_result, exit_code>>

\* main, line 526: os.remove of a file that does not exist raises
\* FileNotFoundError outside any try.
RemoveMissing ==
    /\ pc = "remove"
    /\ UNCHANGED aside
    /\ CurFile.id \notin staged
    /\ pc' = "crashed"
    /\ exit_code' = 1
    /\ UNCHANGED <<env, recordings, ri, fi, counters, disk, started, observed,
                   evals, main_result>>

\* main, lines 531-536, and line 544: the summary; main returns None.
Summary ==
    /\ pc = "summary"
    /\ UNCHANGED aside
    /\ pc' = "done"
    /\ main_result' = "None"
    /\ exit_code' = 0
    /\ UNCHANGED <<env, recordings, ri, fi, counters, disk, started, observed,
                   evals>>

\* The process is started again: module-level state and main's locals are
\* fresh, the disk and the destination are as the previous run left them.
NewRun ==
    /\ pc \in {"done", "crashed"}
    /\ UNCHANGED aside
    /\ run < MaxRuns
    /\ run' = run + 1
    /\ dry_run' \in BOOLEAN
    /\ users' = users
    /\ catalog' = catalog
    /\ pc' = "fetch"
    /\ recordings' = <<>>
    /\ ri' = 0
    /\ fi' = 0
    /\ total_recording_size' = 0
    /\ completed_recordings' = 0
    /\ failed_files' = 0
    /\ ledger0' = LedgerData
    /\ dlOutcome' = NoFileState
    /\ ulOutcome' = NoFileState
    /\ dlCalls' = NoFileCount
    /\ ulCalls' = NoFileCount
    /\ evals' = NoFileCount
    /\ writes' = <<>>
    /\ deleted' = {}
    /\ ulResult' = NoFileState
    /\ retrieved' = 0
    /\ main_result' = "running"
    /\ exit_code' = -1
    /\ UNCHANGED disk

Next ==
    \/ GetRecordings
    \/ StartLoop
    \/ ReturnNoRecordings
    \/ LedgerFallback
    \/ LedgerUnreadable
    \/ EnterFile
    \/ DryRunDownload
    \/ DownloadOpenFails
    \/ BeginDownload
    \/ DownloadCompletes
    \/ DownloadStreamFails
    \/ NothingToUpload
    \/ DryRunUpload
    \/ UploadCannotStart
    \/ BeginUpload
    \/ UploadEnds
    \/ RemoveLocal
    \/ RemoveMissing
    \/ Summary
    \/ NewRun

allvars == <<vars, aside>>

Spec == Init /\ [][Next]_allvars

\* The interpreter keeps executing the program: a step that can be taken is
\* taken.
FairSpec == Spec /\ WF_allvars(Next)

\* main() is not running: the state of the parts modelled on their own.
MainIdle ==
    /\ run = 0
    /\ dry_run = FALSE
    /\ users = <<>>
    /\ catalog = <<>>
    /\ pc = "off"
    /\ recordings = <<>>
    /\ ri = 0
    /\ fi = 0
    /\ total_recording_size = 0
    /\ completed_recordings = 0
    /\ failed_files = 0
    /\ ledgerExists = FALSE
    /\ ledgerValid = TRUE
    /\ ledger = <<>>
    /\ ledger0 = <<>>
    /\ staged = {}
    /\ dlOutcome = NoFileState
    /\ ulOutcome = NoFileState
    /\ dlCalls = NoFileCount
    /\ ulCalls = NoFileCount
    /\ evals = NoFileCount
    /\ writes = <<>>
    /\ deleted = {}
    /\ ulResult = NoFileState
    /\ retrieved = 0
    /\ main_result = "off"
    /\ exit_code = -1

\* ------------------------------------- the process interrupted in a transfer

\* handle_graceful_shutdown: SIGINT arrives while download_recording or
\* upload_large_file is transferring; system.exit(0) unwinds main (SystemExit
\* is no Exception: no except clause of main takes it, the else clause does
\* not run).
InterruptTransfer ==
    /\ pc \in {"downloading", "uploading"}
    /\ pc' = "killed"
    /\ exit_code' = 0
    /\ UNCHANGED <<env, recordings, ri, fi, counters, disk, started, observed,
                   evals, main_result, aside>>

\* The process is started again after the interrupt; k_file keeps the file
\* it was interrupted on and the status that file had.
RestartAfterInterrupt ==
    /\ pc = "killed"
    /\ run < MaxRuns
    /\ k_file' = [id |-> CurFile.id, status |-> CurFile.status, run |-> run]
    /\ run' = run + 1
    /\ dry_run' \in BOOLEAN
    /\ users' = users
    /\ catalog' = catalog
    /\ pc' = "fetch"
    /\ recordings' = <<>>
    /\ ri' = 0
    /\ fi' = 0
    /\ total_recording_size' = 0
    /\ completed_recordings' = 0
    /\ failed_files' = 0
    /\ ledger0' = LedgerData
    /\ dlOutcome' = NoFileState
    /\ ulOutcome' = NoFileState
    /\ dlCalls' = NoFileCount
    /\ ulCalls' = NoFileCount
    /\ evals' = NoFileCount
    /\ writes' = <<>>
    /\ deleted' = {}
    /\ ulResult' = NoFileState
    /\ retrieved' = 0
    /\ main_result' = "running"
    /\ exit_code' = -1
    /\ UNCHANGED <<disk, wvars, lvars, tvars, cvars>>

InterruptNext ==
    \/ GetRecordings
    \/ StartLoop
    \/ ReturnNoRecordings
    \/ LedgerFallback
    \/ LedgerUnreadable
    \/ EnterFile
    \/ DryRunDownload
    \/ DownloadOpenFails
    \/ BeginDownload
    \/ DownloadCompletes
    \/ DownloadStreamFails
    \/ NothingToUpload
    \/ DryRunUpload
    \/ UploadCannotStart
    \/ BeginUpload
    \/ UploadEnds
    \/ RemoveLocal
    \/ RemoveMissing
    \/ Summary
    \/ NewRun
    \/ InterruptTransfer
    \/ RestartAfterInterrupt

InterruptSpec == Init /\ [][InterruptNext]_allvars

\* ------------------------------- utils/file_io.py: the ledger file, step by step

MeetingIds == {"m1", "m2"}
LedgerFields == {"id", "status_"}
FieldValues == {"v1", "v2"}

\* The mappings of fields a caller can pass as meeting_json.
JsonDocs == UNION { [S -> FieldValues] : S \in SUBSET LedgerFields }

\* update_meeting_json_file, lines 21-27: the data of the file, {} when the
\* file does not exist or json.load rejects it.
LoadOrEmpty(file) == IF file.kind = "json" THEN file.data ELSE <<>>

WriterInit ==
    /\ w_pc = "idle"
    /\ w_file \in {DiskFile("absent", <<>>), DiskFile("garbage", <<>>), DiskFile("json", <<>>)}
    /\ w_data = <<>>
    /\ w_id = ""
    /\ w_json = <<>>
    /\ w_prior = w_file
    /\ MainIdle
    /\ ListingIdle
    /\ CleanupIdle
    /\ InterruptIdle
    /\ ChunkIdle

\* update_meeting_json_file, lines 21-32: the file is read and the entry is
\* merged into the local data.
W_ReadAndMerge ==
    /\ w_pc \in {"idle", "returned"}
    /\ \E m \in MeetingIds, j \in JsonDocs :
          /\ w_id' = m
          /\ w_json' = j
          /\ w_data' = update_meeting_json_file(LoadOrEmpty(w_file), m, j)
    /\ w_prior' = w_file
    /\ w_pc' = "merged"
    /\ UNCHANGED <<w_file, vars, lvars, tvars, kvars, cvars>>

\* update_meeting_json_file, line 34: open(file_path, 'w') truncates the file.
W_OpenForWriting ==
    /\ w_pc = "merged"
    /\ w_file' = DiskFile("empty", <<>>)
    /\ w_pc' = "opened"
    /\ UNCHANGED <<w_data, w_id, w_json, w_prior, vars, lvars, tvars, kvars, cvars>>

\* update_meeting_json_file, line 35: json.dump has written a part of the text.
W_DumpPart ==
    /\ w_pc = "opened"
    /\ w_file' = DiskFile("partial", <<>>)
    /\ w_pc' = "dumping"
    /\ UNCHANGED <<w_data, w_id, w_json, w_prior, vars, lvars, tvars, kvars, cvars>>

\* update_meeting_json_file, lines 34-35: the dump is complete and the with
\* block closes the file; the function returns.
W_DumpRestAndClose ==
    /\ w_pc = "dumping"
    /\ w_file' = DiskFile("json", w_data)
    /\ w_pc' = "returned"
    /\ UNCHANGED <<w_data, w_id, w_json, w_prior, vars, lvars, tvars, kvars, cvars>>

\* handle_graceful_shutdown: SIGINT arrives during the call, system.exit(0)
\* unwinds it; the file stays as it is on disk.
W_Interrupt ==
    /\ w_pc \in {"merged", "opened", "dumping"}
    /\ w_pc' = "killed"
    /\ UNCHANGED <<w_file, w_data, w_id, w_json, w_prior, vars, lvars, tvars, kvars, cvars>>

\* The process is started again after an interrupt.
W_Restart ==
    /\ w_pc = "killed"
    /\ w_pc' = "idle"
    /\ w_data' = <<>>
    /\ w_id' = ""
    /\ w_json' = <<>>
    /\ w_prior' = w_file
    /\ UNCHANGED <<w_file, vars, lvars, tvars, kvars, cvars>>

WriterNext ==
    \/ W_ReadAndMerge
    \/ W_OpenForWriting
    \/ W_DumpPart
    \/ W_DumpRestAndClose
    \/ W_Interrupt
    \/ W_Restart


WriterSpec == WriterInit /\ [][WriterNext]_allvars

\* ------------------------------------------ utils/zoom.py: list_recordings

MaxDay == 65

\* timedelta(days=30), the delta list_recordings passes to per_delta
WindowDays == 30

max_retries == 3

\* A generator that yields curr + delta without the min.
RECURSIVE per_delta_NoMin(_, _, _)
per_delta_NoMin(start, end, delta) ==
    IF start < end
    THEN <<<<start, start + delta>>>> \o per_delta_NoMin(start + delta, end, delta)
    ELSE <<>>

\* per_delta (the method of ZoomClient; the function of the same name in
\* zoom-recording-cloud-backup.py has the same body): the pairs it yields.
RECURSIVE per_delta(_, _, _)
per_delta(start, end, delta) ==
    IF start < end
    THEN LET curr_end == IF start + delta < end THEN start + delta ELSE end
         IN  <<<<start, curr_end>>>> \o per_delta(start + delta, end, delta)
    ELSE <<>>

\* The provider answers a request with one page of results (at most 300
\* meetings, the page size of get_recording_object) and holds up to
\* MaxPages pages for a window.
MaxPages == 2

\* The meetings of one page of the results of a window.
PageOf(window, page) == <<window[1], page>>

\* get_recordings, lines 25-32: one request, and the "meetings" of its
\* response: the first page of the window's results.
MeetingsOf(window) == <<PageOf(window, 1)>>

ListingInit ==
    /\ l_pc = "start"
    /\ l_start \in 0..MaxDay
    /\ l_end \in 0..MaxDay
    /\ l_windows = <<>>
    /\ l_wi = 0
    /\ l_attempt = 0
    /\ l_recordings = <<>>
    /\ l_result = <<>>
    /\ l_requests = <<>>
    /\ l_got = {}
    /\ l_pages = <<>>
    /\ MainIdle
    /\ WriterIdle
    /\ CleanupIdle
    /\ InterruptIdle
    /\ ChunkIdle

\* list_recordings, lines 58-60: the windows of the for loop.
L_Split ==
    /\ l_pc = "start"
    /\ l_windows' = per_delta(l_start, l_end, WindowDays)
    /\ l_requests' = [k \in 1..Len(per_delta(l_start, l_end, WindowDays)) |-> 0]
    /\ l_pages' = [k \in 1..Len(per_delta(l_start, l_end, WindowDays)) |-> 0]
    /\ l_pc' = "loop"
    /\ UNCHANGED <<l_start, l_end, l_wi, l_attempt, l_recordings, l_result,
                   l_got, vars, wvars, tvars, kvars, cvars>>

\* list_recordings, lines 60-62: the next window, no attempt made yet.
L_NextWindow ==
    /\ l_pc = "loop"
    /\ l_wi < Len(l_windows)
    /\ l_wi' = l_wi + 1
    /\ l_attempt' = 0
    /\ l_pc' = "request"
    /\ UNCHANGED <<l_start, l_end, l_windows, l_recordings, l_result,
                   l_requests, l_got, l_pages, vars, wvars, tvars, kvars, cvars>>

\* A retry loop without the break: the answered request is followed by the
\* next iteration.
L_RequestMeetings_NoBreak ==
    /\ l_pc = "request"
    /\ l_attempt < max_retries
    /\ l_requests' = [l_requests EXCEPT ![l_wi] = @ + 1]
    /\ l_recordings' = l_recordings \o MeetingsOf(l_windows[l_wi])
    /\ l_got' = l_got \cup {l_wi}
    /\ \E n \in 1..MaxPages : l_pages' = [l_pages EXCEPT ![l_wi] = n]
    /\ l_attempt' = l_attempt + 1
    /\ UNCHANGED <<l_pc, l_start, l_end, l_windows, l_wi, l_result,
                   vars, wvars, tvars, kvars, cvars>>

\* list_recordings, lines 63-65 and 78-79: get_recordings returns a document
\* with the key "meetings"; the retry loop breaks and the list is extended.
L_RequestMeetings ==
    /\ l_pc = "request"
    /\ l_attempt < max_retries
    /\ l_requests' = [l_requests EXCEPT ![l_wi] = @ + 1]
    /\ l_recordings' = l_recordings \o MeetingsOf(l_windows[l_wi])
    /\ l_got' = l_got \cup {l_wi}
    /\ \E n \in 1..MaxPages : l_pages' = [l_pages EXCEPT ![l_wi] = n]
    /\ l_pc' = "loop"
    /\ UNCHANGED <<l_start, l_end, l_windows, l_wi, l_attempt, l_result,
                   vars, wvars, tvars, kvars, cvars>>

\* list_recordings, lines 63-65 and 80-82: get_recordings returns a document
\* without the key "meetings"; nothing is added.
L_RequestNoMeetings ==
    /\ l_pc = "request"
    /\ l_attempt < max_retries
    /\ l_requests' = [l_requests EXCEPT ![l_wi] = @ + 1]
    /\ l_pc' = "loop"
    /\ UNCHANGED <<l_start, l_end, l_windows, l_wi, l_attempt, l_recordings,
                   l_result, l_got, l_pages, vars, wvars, tvars, kvars, cvars>>

\* list_recordings, lines 63-73: get_recordings raises ConnectTimeout or
\* ReadTimeout; after the sleep the retry loop goes on.
L_RequestTimeout ==
    /\ l_pc = "request"
    /\ l_attempt < max_retries
    /\ l_requests' = [l_requests EXCEPT ![l_wi] = @ + 1]
    /\ l_attempt' = l_attempt + 1
    /\ UNCHANGED <<l_pc, l_start, l_end, l_windows, l_wi, l_recordings,
                   l_result, l_got, l_pages, vars, wvars, tvars, kvars, cvars>>

\* list_recordings, lines 74-76: the else of the retry loop, return [].
L_GiveUp ==
    /\ l_pc = "request"
    /\ l_attempt = max_retries
    /\ l_result' = <<>>
    /\ l_pc' = "returned"
    /\ UNCHANGED <<l_start, l_end, l_windows, l_wi, l_attempt, l_recordings,
                   l_requests, l_got, l_pages, vars, wvars, tvars, kvars, cvars>>

\* list_recordings, line 84: the for loop is over, return recordings.
L_Return ==
    /\ l_pc = "loop"
    /\ l_wi = Len(l_windows)
    /\ l_result' = l_recordings
    /\ l_pc' = "returned"
    /\ UNCHANGED <<l_start, l_end, l_windows, l_wi, l_attempt, l_recordings,
                   l_requests, l_got, l_pages, vars, wvars, tvars, kvars, cvars>>

ListingNext ==
    \/ L_Split
    \/ L_NextWindow
    \/ L_RequestMeetings
    \/ L_RequestNoMeetings
    \/ L_RequestTimeout
    \/ L_GiveUp
    \/ L_Return

ListingSpec == ListingInit /\ [][ListingNext]_allvars

\* ---------------------------------- utils/file_io.py: remove_empty_subfolders

MaxDirs == 4

\* Directory 1 is path_abs; the parent of a directory has a smaller number.
Trees ==
    UNION { { [d \in 1..n |-> IF d = 1 THEN 0 ELSE f[d]] :
                f \in { g \in [2..n -> 1..n] : \A d \in 2..n : g[d] < d } } :
            n \in 1..MaxDirs }

\* The subdirectories of d that exist.
SubDirs(d) == {c \in t_dirs : t_parent[c] = d}

\* os.listdir(d) is empty.
IsEmptyDir(d) == SubDirs(d) = {} /\ d \notin t_files

\* The sequence s followed by the sequences seqs[k] for the k of ks, ascending.
RECURSIVE ConcatIn(_, _, _)
ConcatIn(s, seqs, ks) ==
    IF ks = {} THEN s
    ELSE LET k == CHOOSE x \in ks : \A y \in ks : x <= y
         IN  ConcatIn(s \o seqs[k], seqs, ks \ {k})

\* os.walk(d), top-down: d, then the walk of each of its subdirectories.
RECURSIVE os_walk(_)
os_walk(d) ==
    ConcatIn(<<d>>, [c \in SubDirs(d) |-> os_walk(c)], SubDirs(d))

\* A walk taken as it comes, top-down.
Reversed_Not(s) == s

\* walk[::-1]
Reversed(s) == [k \in 1..Len(s) |-> s[Len(s) + 1 - k]]

CleanupInit ==
    /\ t_pc = "start"
    /\ t_parent \in Trees
    /\ t_files \in SUBSET DOMAIN t_parent
    /\ t_dirs = DOMAIN t_parent
    /\ t_dirs0 = DOMAIN t_parent
    /\ t_walk = <<>>
    /\ t_i = 0
    /\ MainIdle
    /\ WriterIdle
    /\ ListingIdle
    /\ InterruptIdle
    /\ ChunkIdle

\* remove_empty_subfolders, lines 39-40: the walk is listed whole, then
\* reversed.
T_Walk ==
    /\ t_pc = "start"
    /\ t_walk' = Reversed(os_walk(1))
    /\ t_i' = 1
    /\ t_pc' = "loop"
    /\ UNCHANGED <<t_parent, t_files, t_dirs, t_dirs0, vars, wvars, lvars, kvars, cvars>>

\* remove_empty_subfolders, lines 40-42: the directory is empty, os.rmdir.
T_RemoveEmpty ==
    /\ t_pc = "loop"
    /\ t_i <= Len(t_walk)
    /\ IsEmptyDir(t_walk[t_i])
    /\ t_dirs' = t_dirs \ {t_walk[t_i]}
    /\ t_i' = t_i + 1
    /\ UNCHANGED <<t_pc, t_parent, t_files, t_dirs0, t_walk, vars, wvars, lvars, kvars, cvars>>

\* remove_empty_subfolders, lines 40-41: the directory holds something.
T_KeepNonEmpty ==
    /\ t_pc = "loop"
    /\ t_i <= Len(t_walk)
    /\ ~IsEmptyDir(t_walk[t_i])
    /\ t_i' = t_i + 1
    /\ UNCHANGED <<t_pc, t_parent, t_files, t_dirs, t_dirs0, t_walk, vars,
                   wvars, lvars, kvars, cvars>>

\* remove_empty_subfolders: the for loop is over.
T_Return ==
    /\ t_pc = "loop"
    /\ t_i > Len(t_walk)
    /\ t_pc' = "returned"
    /\ UNCHANGED <<t_parent, t_files, t_dirs, t_dirs0, t_walk, t_i, vars,
                   wvars, lvars, kvars, cvars>>

CleanupNext ==
    \/ T_Walk
    \/ T_RemoveEmpty
    \/ T_KeepNonEmpty
    \/ T_Return

CleanupSpec == CleanupInit /\ [][CleanupNext]_allvars

\* --------------------------- utils/msgraph_utils.py: the chunk size of an upload

\* 5 * 1024 * 1024, the initial max_chunk_size
DefaultChunkSize == 5242880

MaxSizeOffset == 40

\* The sizes of the local file: the small ones and those around the default
\* chunk size.
FileSizes ==
    (0..MaxSizeOffset)
        \cup ((DefaultChunkSize - MaxSizeOffset)..(DefaultChunkSize + MaxSizeOffset))

ChunkInit ==
    /\ c_pc = "start"
    /\ c_total_length \in FileSizes
    /\ c_max_chunk_size = 0
    /\ MainIdle
    /\ WriterIdle
    /\ ListingIdle
    /\ CleanupIdle
    /\ InterruptIdle

\* upload_large_file, lines 99-100
C_DefaultChunkSize ==
    /\ c_pc = "start"
    /\ c_max_chunk_size' = DefaultChunkSize
    /\ c_pc' = "sized"
    /\ UNCHANGED <<c_total_length, vars, wvars, lvars, tvars, kvars>>

\* upload_large_file, lines 104-105 and 116-121: the file is smaller than the
\* chunk size; the task is created with total_length - 1.
C_SmallerFile ==
    /\ c_pc = "sized"
    /\ c_total_length < c_max_chunk_size
    /\ c_max_chunk_size' = c_total_length - 1
    /\ c_pc' = "task"
    /\ UNCHANGED <<c_total_length, vars, wvars, lvars, tvars, kvars>>

\* upload_large_file, lines 104 and 116-121: the task is created with the
\* default chunk size.
C_KeepChunkSize ==
    /\ c_pc = "sized"
    /\ ~(c_total_length < c_max_chunk_size)
    /\ c_pc' = "task"
    /\ UNCHANGED <<c_total_length, c_max_chunk_size, vars, wvars, lvars, tvars, kvars>>

ChunkNext ==
    \/ C_DefaultChunkSize
    \/ C_SmallerFile
    \/ C_KeepChunkSize

ChunkSpec == ChunkInit /\ [][ChunkNext]_allvars

\* ------------------------------------------------------------------ claims

\* The positions <<recording, file>> of main's two loops.
Positions ==
    UNION { {<<i, j>> : j \in 1..Len(recordings[i].files)} : i \in 1..Len(recordings) }

FileAt(p) == recordings[p[1]].files[p[2]]
IdAt(p) == recordings[p[1]].files[p[2]].id
MeetingAt(p) == recordings[p[1]].id

\* The status the file object at p had when it was constructed in this run.
ConstructedStatus(p) ==
    LET r == recordings[p[1]]
        m == CHOOSE m \in Range(catalog[r.user]) : m.uuid = r.id
    IN  RecordingFiles(m.recording_files[p[2]]).status

\* The ledger was merge-written in this run for the file at p with status st.
Wrote(p, st) ==
    \E k \in 1..Len(writes) :
        writes[k] = [meeting |-> MeetingAt(p), json |-> [id |-> IdAt(p), status_ |-> st]]

\* The ledger entry of the recording of p records the file at p with status st.
LedgerRecords(p, st) ==
    /\ MeetingAt(p) \in DOMAIN ledger
    /\ ledger[MeetingAt(p)] = [id |-> IdAt(p), status_ |-> st]

Terminated == exit_code # -1

\* C1: if the ledger recorded a file as uploaded when a non-dry run started
\* and the provider lists the recording in that run (its JSON as the provider
\* gives it, without a "_status" key), the run neither downloads nor uploads
\* that file.
C1_UploadedFilesNotRepeated ==
    ~dry_run =>
        \A p \in Positions :
            ( /\ ConstructedStatus(p) = "pending"
              /\ MeetingAt(p) \in DOMAIN ledger0
              /\ ledger0[MeetingAt(p)] = [id |-> IdAt(p), status_ |-> "uploaded"] )
            => (dlCalls[IdAt(p)] = 0 /\ ulCalls[IdAt(p)] = 0)

\* C2: in a non-dry run a file gets status uploaded, or has its staging file
\* deleted, only if the upload of its content completed successfully.
C2_UploadedOnlyAfterSuccess ==
    ~dry_run =>
        \A p \in Positions :
            ( \/ (FileAt(p).status = "uploaded" /\ ConstructedStatus(p) # "uploaded")
              \/ IdAt(p) \in deleted )
            => ulOutcome[IdAt(p)] = "ok"

\* C3: upload_large_file raises to its caller whenever creating the upload
\* session or uploading a chunk fails.
C3_UploadFailureRaises ==
    \A f \in AllFileIds :
        ulOutcome[f] \in {"session_api_error", "chunk_api_error"} => ulResult[f] = "raised"

\* C4: in a non-dry run every failed download, at the opening of the request
\* or while streaming, leaves the file with status download failed, written
\* to the ledger under the recording id, and counted in the failure counter.
C4_DownloadFailureRecorded ==
    ~dry_run =>
        /\ \A p \in Positions :
              dlOutcome[IdAt(p)] \in {"open_fail", "stream_fail"}
              => (FileAt(p).status = "download failed" /\ Wrote(p, "download failed"))
        /\ failed_files >=
              Cardinality({f \in AllFileIds : dlOutcome[f] \in {"open_fail", "stream_fail"}})

\* C5: when the upload of a downloaded file raises, the file's status is
\* upload failed, the ledger was written with that status for its recording,
\* the staging file was not deleted (it is still there when it could be
\* opened), and the failure counter counts that file exactly once: the
\* counter is the number of raised uploads plus the raised downloads.
C5_UploadRaisedIsRecorded ==
    /\ \A p \in Positions :
          ulResult[IdAt(p)] = "raised"
          => /\ FileAt(p).status = "upload failed"
             /\ Wrote(p, "upload failed")
             /\ ~Wrote(p, "uploaded")
             /\ IdAt(p) \notin deleted
             /\ ulOutcome[IdAt(p)] # "no_local_file" => IdAt(p) \in staged
             /\ ulCalls[IdAt(p)] = 1
    /\ failed_files =
          Cardinality({f \in AllFileIds : ulResult[f] = "raised"})
          + Cardinality({f \in AllFileIds : dlOutcome[f] = "open_fail"})

\* C5 witness: an upload that raised while the staging file exists.
C5_Witness ==
    \E p \in Positions :
        /\ ~dry_run
        /\ ulOutcome[IdAt(p)] = "other_error"
        /\ FileAt(p).status = "upload failed"
        /\ IdAt(p) \in staged
        /\ failed_files = 1

\* C6 as stated: a pending file whose download succeeds in a non-dry run has
\* status downloaded at the end of the run, in the ledger too, and was not
\* uploaded in that run.
C6_OneTransitionPerRun ==
    (~dry_run /\ pc = "done") =>
        \A p \in Positions :
            (ConstructedStatus(p) = "pending" /\ dlOutcome[IdAt(p)] = "ok")
            => (FileAt(p).status = "downloaded" /\ ulCalls[IdAt(p)] = 0)

\* C6 amended: a pending file whose download succeeds in a non-dry run gets
\* status downloaded, written to the ledger entry of its recording, when the
\* download returns; the same run then uploads it once, so when the run has
\* reached the summary its status is uploaded or upload failed.
C6_DownloadThenUploadSameRun ==
    ~dry_run =>
        \A p \in Positions :
            (ConstructedStatus(p) = "pending" /\ dlOutcome[IdAt(p)] = "ok")
            => /\ Wrote(p, "downloaded")
               /\ (pc = "ready" /\ p = <<ri, fi>>)
                  => (FileAt(p).status = "downloaded" /\ LedgerRecords(p, "downloaded")
                      /\ ulCalls[IdAt(p)] = 0)
               /\ pc = "done"
                  => (FileAt(p).status \in {"uploaded", "upload failed"}
                      /\ ulCalls[IdAt(p)] = 1)

\* C6 witness: a run at its end with a file it downloaded and then uploaded.
C6_Witness ==
    \E p \in Positions :
        /\ ~dry_run
        /\ pc = "done"
        /\ ConstructedStatus(p) = "pending"
        /\ dlOutcome[IdAt(p)] = "ok"
        /\ ulOutcome[IdAt(p)] = "ok"
        /\ FileAt(p).status = "uploaded"

\* C7: a dry run makes no download call, no upload call and no ledger write,
\* changes no file status and no counter, and deletes no staging file.
C7_DryRunHasNoEffect ==
    dry_run =>
        /\ \A f \in AllFileIds : dlCalls[f] = 0 /\ ulCalls[f] = 0
        /\ writes = <<>>
        /\ \A p \in Positions : FileAt(p).status = ConstructedStatus(p)
        /\ total_recording_size = 0 /\ completed_recordings = 0 /\ failed_files = 0
        /\ deleted = {}

\* The loop body is running for a file that entered it with status uploaded
\* (position "ready" is reached with that status from the entry only).
OnUploadedFile ==
    /\ pc \in {"file", "ready"}
    /\ CurFile.status = "uploaded"

\* C8: every step of the state machine on a file whose status is uploaded
\* leaves the downloads, the uploads, the ledger, the counters, the staging
\* files and all statuses as they are, in every run.
C8_UploadedIsNoOp ==
    [][OnUploadedFile =>
          /\ UNCHANGED <<recordings, counters, disk, observed>>
          /\ pc' \in {"file", "ready", "summary"}]_vars

\* C8 witness: a second run has gone over a file that has status uploaded.
C8_Witness ==
    \E p \in Positions :
        /\ run = 2
        /\ pc = "done"
        /\ evals[IdAt(p)] = 1
        /\ ConstructedStatus(p) = "uploaded"
        /\ FileAt(p).status = "uploaded"

\* C9: a run that retrieved no recording while the ledger held an entry
\* rebuilds the recordings from the ledger and ends with the summary: it does
\* not crash and does not end with exit code 1.
C9_LedgerFallbackContinues ==
    (Terminated /\ retrieved = 0 /\ DOMAIN ledger0 # {})
    => (pc = "done" /\ recordings # <<>> /\ main_result = "None" /\ exit_code = 0)

\* C10: a run that retrieved no recording while the ledger was empty ends
\* with exit code 1, and a run that completed its loop ends with exit code 0.
C10_ExitCodes ==
    /\ (Terminated /\ retrieved = 0 /\ DOMAIN ledger0 = {}) => exit_code = 1
    /\ (pc = "done" /\ main_result = "None") => exit_code = 0

\* C11: when the process is interrupted during update_meeting_json_file, the
\* ledger file is afterwards exactly what it was before the call or exactly
\* the merged document.
C11_LedgerWriteAtomic ==
    w_pc = "killed" => (w_file = w_prior \/ w_file = DiskFile("json", w_data))

\* C12: a completed update_meeting_json_file call on a valid ledger keeps
\* every meeting id, leaves the other entries as they were, gives every field
\* named in the update the new value and keeps the value of every other
\* field of the entry.
C12_MergeKeepsEntriesAndFields ==
    (w_pc = "returned" /\ w_prior.kind = "json") =>
        /\ w_file.kind = "json"
        /\ DOMAIN w_prior.data \subseteq DOMAIN w_file.data
        /\ w_id \in DOMAIN w_file.data
        /\ \A m \in DOMAIN w_prior.data : m # w_id => w_file.data[m] = w_prior.data[m]
        /\ \A k \in DOMAIN w_json :
              k \in DOMAIN w_file.data[w_id] /\ w_file.data[w_id][k] = w_json[k]
        /\ w_id \in DOMAIN w_prior.data =>
              \A k \in (DOMAIN w_prior.data[w_id]) \ (DOMAIN w_json) :
                  k \in DOMAIN w_file.data[w_id]
                  /\ w_file.data[w_id][k] = w_prior.data[w_id][k]

\* C12 witness: a completed update of an existing entry that names one of its
\* two fields with a new value, beside another entry.
C12_Witness ==
    /\ w_pc = "returned"
    /\ w_prior.kind = "json"
    /\ DOMAIN w_prior.data = MeetingIds
    /\ DOMAIN w_prior.data[w_id] = LedgerFields
    /\ DOMAIN w_json = {"status_"}
    /\ w_json["status_"] # w_prior.data[w_id]["status_"]

\* C13: applying the update a second time with the same meeting id and fields
\* to the ledger the first application wrote gives that same ledger.
C13_MergeIdempotent ==
    w_pc = "returned" =>
        DiskFile("json", update_meeting_json_file(LoadOrEmpty(w_file), w_id, w_json)) = w_file

\* C13 witness: a completed update that changed an existing entry.
C13_Witness ==
    /\ w_pc = "returned"
    /\ w_prior.kind = "json"
    /\ w_id \in DOMAIN w_prior.data
    /\ w_prior.data[w_id] # w_file.data[w_id]
    /\ DOMAIN w_json # {}

\* C14: after a completed run, the ledger holds the last status of every
\* file the run merge-wrote: a write for one file of a recording does not
\* replace what the ledger records for another file of that recording.
C14_LedgerKeepsEveryFileStatus ==
    (pc = "done" /\ main_result = "None") =>
        \A p \in Positions :
            (\E st \in Statuses : Wrote(p, st)) => LedgerRecords(p, FileAt(p).status)

\* C15: a ledger file json.load rejects is read as an empty mapping: the run
\* does not end with an unhandled error.
C15_CorruptLedgerReadAsEmpty ==
    ~ledgerValid => pc # "crashed"

\* C16: when list_recordings returns, the meetings of every window whose
\* request returned them are in the result, whatever happened to the other
\* windows.
C16_OnlyFailedWindowMissing ==
    l_pc = "returned" =>
        \A k \in l_got : \A m \in Range(MeetingsOf(l_windows[k])) : m \in Range(l_result)

\* C17: for start < end the windows of per_delta with the 30-day delta begin
\* at start and end at end, each is non-empty and at most 30 days long, and
\* each begins where the one before ends; for start >= end there is none.
C17_WindowsCoverRange ==
    l_pc # "start" =>
        LET w == l_windows
        IN  IF l_start < l_end
            THEN /\ Len(w) >= 1
                 /\ w[1][1] = l_start
                 /\ w[Len(w)][2] = l_end
                 /\ \A k \in 1..Len(w) : w[k][1] < w[k][2] /\ w[k][2] - w[k][1] <= 30
                 /\ \A k \in 1..(Len(w) - 1) : w[k + 1][1] = w[k][2]
            ELSE w = <<>>

\* C17 witness: a range split into three windows, the last one shorter than
\* 30 days.
C17_Witness ==
    /\ l_pc # "start"
    /\ Len(l_windows) = 3
    /\ l_windows[3][2] - l_windows[3][1] < 30

\* C18 as stated: every non-dry run that ends has reached the summary.
C18_EveryRunReachesSummary ==
    (~dry_run /\ Terminated) => (pc = "done" /\ main_result = "None")

\* The positions of the files whose recording belongs to a user of the list.
OwnedPositions == {p \in Positions : recordings[p[1]].user \in Range(users)}

\* A non-dry run that retrieved recordings has not crashed, has evaluated no
\* file twice, and at the summary has evaluated every file.
C18_NoCrashEachFileOnce ==
    (~dry_run /\ retrieved > 0) =>
        /\ pc # "crashed"
        /\ \A p \in Positions : evals[IdAt(p)] <= 1
        /\ pc \in {"summary", "done"} => \A p \in OwnedPositions : evals[IdAt(p)] = 1

\* C18: a non-dry run that retrieved at least one recording reaches the
\* summary whatever downloads and uploads fail, without a crash, having
\* evaluated every file of every recording of a listed user exactly once.
C18_FailuresDoNotStopTheRun ==
    /\ []C18_NoCrashEachFileOnce
    /\ (pc = "check" /\ ~dry_run /\ retrieved > 0) ~> (pc = "summary")

\* C18 witness: at the summary of a non-dry run of two recordings, after a
\* failed download and a failed upload.
C18_Witness ==
    /\ pc = "summary"
    /\ ~dry_run
    /\ Len(recordings) = 2
    /\ \E p \in Positions : dlOutcome[IdAt(p)] = "open_fail"
    /\ \E p \in Positions : ulResult[IdAt(p)] = "raised"
    /\ \A p \in OwnedPositions : evals[IdAt(p)] = 1

\* The recording at index i had a file merge-written as uploaded in this run.
UploadedSome(i) ==
    \E j \in 1..Len(recordings[i].files) : Wrote(<<i, j>>, "uploaded")

\* The sizes of the first n recordings that had a file uploaded, each once.
RECURSIVE UploadedSize(_)
UploadedSize(n) ==
    IF n = 0 THEN 0
    ELSE UploadedSize(n - 1) + (IF UploadedSome(n) THEN recordings[n].size ELSE 0)

\* C19: at the end of a non-dry run the total-bytes counter is the sum of the
\* sizes of the recordings uploaded in the run, each recording counted once.
C19_TotalCountsEachRecordingOnce ==
    (~dry_run /\ pc = "done" /\ main_result = "None") =>
        total_recording_size = UploadedSize(Len(recordings))

\* Directory d holds a file directly or in a descendant (a descendant has a
\* greater number than its ancestors).
RECURSIVE HoldsFile(_)
HoldsFile(d) ==
    \/ d \in t_files
    \/ \E c \in t_dirs0 : t_parent[c] = d /\ HoldsFile(c)

\* C20: when remove_empty_subfolders has returned, no directory that is left
\* is empty, and every directory that held a file, directly or in a
\* descendant, is left.
C20_NoEmptyDirLeftNoFileLost ==
    t_pc = "returned" =>
        /\ \A d \in t_dirs : ~IsEmptyDir(d)
        /\ \A d \in t_dirs0 : HoldsFile(d) => d \in t_dirs

\* C20 witness: a directory that held only an empty subdirectory was removed
\* after it, beside a directory kept for its file.
C20_Witness ==
    /\ t_pc = "returned"
    /\ \E d \in t_dirs0 \ t_dirs :
          \E c \in t_dirs0 \ t_dirs : t_parent[c] = d /\ d # 1
    /\ \E d \in t_dirs : d # 1 /\ d \in t_files

\* One step inside a non-dry run: a step that changes a status changes that
\* of the current file only and appends the merge-write of that file's JSON,
\* keyed by its recording id, after which the ledger entry equals that JSON;
\* a step that changes no status writes nothing.
C21_StepWritesChange ==
    (~dry_run /\ run' = run /\ recordings # <<>> /\ Len(recordings') = Len(recordings)) =>
        IF recordings' # recordings
        THEN LET json == to_json(recordings'[ri].files[fi])
             IN  /\ recordings' = [recordings EXCEPT ![ri].files[fi].status = json.status_]
                 /\ writes' = Append(writes, [meeting |-> CurRec.id, json |-> json])
                 /\ CurRec.id \in DOMAIN ledger'
                 /\ ledger'[CurRec.id] = json
        ELSE writes' = writes /\ (ledger' = ledger \/ pc = "check")

\* C21: in a non-dry run every change of a file's status comes with the
\* ledger merge-write of the new status, keyed by the recording id, before
\* any other file is processed and before any further change; between
\* file-processing steps the entry last written stays equal to the status of
\* the file that last changed.
C21_StatusChangeIsWritten == [][C21_StepWritesChange]_allvars

\* C21 witness: a non-dry run is between two files of a recording, the first
\* of which changed status twice.
C21_Witness ==
    /\ ~dry_run
    /\ pc = "file"
    /\ fi = 2
    /\ Len(writes) = 2
    /\ FileAt(<<ri, 1>>).status = "uploaded"

\* C22: when the process is interrupted during the download or the upload of
\* a file, every ledger write of the run for that file carries the status the
\* file had before the transfer, and the next run, when it lists the file,
\* sees it with that status.
C22_InterruptKeepsPreviousStatus ==
    /\ pc = "killed" =>
          \A k \in 1..Len(writes) :
              writes[k].json.id = CurFile.id => writes[k].json.status_ = CurFile.status
    /\ (pc = "check" /\ k_file.run > 0 /\ k_file.run = run - 1) =>
          \A p \in Positions : IdAt(p) = k_file.id => FileAt(p).status = k_file.status

StatusSteps ==
    { <<"pending", "downloaded">>, <<"pending", "download failed">>,
      <<"downloaded", "uploaded">>, <<"downloaded", "upload failed">> }

TerminalStatuses == {"download failed", "upload failed", "uploaded"}

\* One step inside a run, seen from every file of the run.
C23_StepAllowed ==
    (run' = run /\ recordings # <<>> /\ Len(recordings') = Len(recordings)) =>
        \A p \in Positions :
            LET old == FileAt(p).status
                new == recordings'[p[1]].files[p[2]].status
                id == IdAt(p)
            IN  /\ new # old => <<old, new>> \in StatusSteps
                /\ old \in TerminalStatuses =>
                      /\ new = old
                      /\ dlCalls'[id] = dlCalls[id]
                      /\ ulCalls'[id] = ulCalls[id]
                /\ (old = "upload failed" /\ id \in staged) => id \in staged'

\* C23: within a run a file's status changes only pending -> downloaded,
\* pending -> download failed, downloaded -> uploaded or downloaded -> upload
\* failed; a file that is download failed, upload failed or uploaded keeps
\* its status and is neither downloaded nor uploaded, and the staged file of
\* a file that is upload failed stays.
C23_StatusTransitions == [][C23_StepAllowed]_allvars

\* C23 witness: a file is upload failed with its staged file in place while
\* the run has gone on to upload a later file.
C23_Witness ==
    \E p \in Positions, q \in Positions :
        /\ p[1] = q[1] /\ p[2] < q[2]
        /\ FileAt(p).status = "upload failed"
        /\ IdAt(p) \in staged
        /\ FileAt(q).status = "uploaded"

\* One step of list_recordings, seen from every window's request count.
C24_RequestAllowed ==
    l_pc # "start" =>
        \A k \in DOMAIN l_requests :
            l_requests'[k] # l_requests[k] =>
                /\ k = l_wi
                /\ l_pc = "request"
                /\ k \notin l_got
                /\ l_requests[k] = l_attempt
                /\ l_requests[k] < 3
                /\ l_requests'[k] = l_requests[k] + 1

\* C24: a listing request is made for the current window only, only while
\* every earlier request for that window has timed out (never after an
\* answered one), and only while fewer than 3 have been made.
C24_AtMostThreeRequests == [][C24_RequestAllowed]_allvars

\* C24 witness: the third request for a window was answered after two
\* timeouts.
C24_Witness ==
    /\ l_pc = "loop"
    /\ l_wi \in l_got
    /\ l_requests[l_wi] = 3

\* The complete results of the first n windows, in the order of the windows.
RECURSIVE AllPages(_)
AllPages(n) ==
    IF n = 0 THEN <<>>
    ELSE AllPages(n - 1) \o [pg \in 1..l_pages[n] |-> PageOf(l_windows[n], pg)]

\* C27: when the first request for every window is answered with meetings,
\* the result is every page of every window's results, in the order of the
\* windows.
C27_AllPagesReturned ==
    (/\ l_pc = "returned"
     /\ l_got = 1..Len(l_windows)
     /\ \A k \in 1..Len(l_windows) : l_requests[k] = 1)
    => l_result = AllPages(Len(l_windows))

\* A step that deletes the staged file of f finds the ledger entry of the
\* recording of f written with the id of f and status uploaded.
C25_DeleteAfterUploadedWritten ==
    \A f \in staged \ staged' :
        /\ f[1] \in DOMAIN ledger
        /\ ledger[f[1]] = [id |-> f, status_ |-> "uploaded"]

\* A file the ledger records as downloaded has its staged file.
C25_DownloadedHasStagedFile ==
    \A m \in DOMAIN ledger : ledger[m].status_ = "downloaded" => ledger[m].id \in staged

\* C25: a staged file is deleted only after the ledger entry of its recording
\* has been written with its id and status uploaded; and in every state, the
\* one a crash at any step leaves included, a file the ledger records as
\* downloaded still has its staged file.
C25_DeletedOnlyAfterUploadedWritten ==
    /\ []C25_DownloadedHasStagedFile
    /\ [][C25_DeleteAfterUploadedWritten]_allvars

\* C25 witness: a staged file has been deleted and the ledger records it as
\* uploaded.
C25_Witness ==
    \E p \in Positions :
        /\ IdAt(p) \in deleted
        /\ IdAt(p) \notin staged
        /\ LedgerRecords(p, "uploaded")

\* C26: the chunk size handed to the upload task is at least 1 byte and at
\* most 5 MiB: 5 MiB for a file of at least 5 MiB, the size less one
\* otherwise.
C26_ChunkSizeInRange ==
    c_pc = "task" =>
        /\ c_max_chunk_size >= 1
        /\ c_max_chunk_size <= 5 * 1024 * 1024
        /\ c_max_chunk_size =
              IF c_total_length >= 5 * 1024 * 1024 THEN 5 * 1024 * 1024
              ELSE c_total_length - 1

====
